---- MODULE Spec2Model ----
(***************************************************************************)
(* The task tracker of mcp-server/server.py: the in-memory store (tasks,   *)
(* next_id), its JSON backing file (load_tasks, save_tasks) and the four   *)
(* tools of call_tool (add_task, list_tasks, move_task, delete_task).      *)
(*                                                                         *)
(* Spec      one process lifetime over a file system that works; the calls *)
(*           carry values inside and outside the enums of the schemas.     *)
(* FaultSpec calls with schema-conforming values over a file system whose  *)
(*           writes may fail, with the process stopping (also in the       *)
(*           middle of save_tasks) and starting again (main -> load_tasks).*)
(***************************************************************************)
EXTENDS Integers, Sequences, FiniteSets, TLC

VARIABLES
    tasks,     \* server.py:28  dict[int, Task], as the sequence of its entries in insertion order
    next_id,   \* server.py:29
    file,      \* the content of DATA_FILE (server.py:18)
    pc,        \* "running" | "stopped" | "fatal": the server process
    call,      \* the last call_tool request (name and arguments)
    result,    \* what that call gave its caller: the text returned, or the exception raised
    issued,    \* history: the ids add_task has assigned since the process started
    faults     \* history: how many file-system faults have been injected

vars == <<tasks, next_id, file, pc, call, result, issued, faults>>

\* ------------------------------------------------------------------ bounds

\* add_task is offered while next_id <= MaxId (the counter itself is unbounded).
MaxId == 3
\* The file system misbehaves at most MaxFaults times in a behaviour.
MaxFaults == 1

\* ------------------------------------------------------------------ inputs

\* A key that the arguments dict does not hold.
Absent == "<absent>"

TaskStatus == {"todo", "in_progress", "done"}

\* A value outside every enum of the tool schemas.
Bogus == "bogus"

\* add_task's (title, description): an empty title, a description left out (it
\* defaults to ""), and a title with a description.
TitleDescriptionArgs == {<<"", Absent>>, <<"a", "d">>}
StatusArgs == {Absent} \cup TaskStatus \cup {Bogus}
FilterArgs == {Absent, "all"} \cup TaskStatus \cup {Bogus}
NewStatusArgs == TaskStatus \cup {Bogus}
IdArgs == 0 .. (MaxId + 1)
UnknownNames == {"rename_task"}

\* How one run of save_tasks ends.
\*   ok           the file holds the whole new snapshot
\*   open_fails   open(DATA_FILE, 'w') raises OSError: the file is untouched
\*   write_fails  open truncated the file, then json.dump or the close raises OSError
\*   killed       open truncated the file, then the process stopped
IoOutcomes == {"ok", "open_fails", "write_fails", "killed"}

\* ------------------------------------------------------------------ dict[int, Task]

Range(s) == {s[i] : i \in 1 .. Len(s)}

Keys(ts) == {ts[i].key : i \in 1 .. Len(ts)}

HasKey(ts, k) == k \in Keys(ts)

\* tasks[k], for a key the dict holds
Lookup(ts, k) == (CHOOSE e \in Range(ts) : e.key = k).task

\* tasks.values()
Values(ts) == [i \in 1 .. Len(ts) |-> ts[i].task]

\* tasks[k] = t: a new key goes last, a key already there keeps its place
DictSet(ts, k, t) ==
    IF HasKey(ts, k)
    THEN [i \in 1 .. Len(ts) |-> IF ts[i].key = k THEN [key |-> k, task |-> t] ELSE ts[i]]
    ELSE Append(ts, [key |-> k, task |-> t])

\* tasks.pop(k), what is left of the dict
DictPop(ts, k) == SelectSeq(ts, LAMBDA e : e.key # k)

\* ------------------------------------------------------------------ Task

\* Task(id=..., title=..., description=..., status=...): pydantic validates status
\* against the Literal and accepts any str as title (the empty one too).
Task(id, title, description, status) ==
    IF status \in TaskStatus
    THEN [ok |-> TRUE,
          task |-> [id |-> id, title |-> title, description |-> description, status |-> status]]
    ELSE [ok |-> FALSE, exc |-> "ValidationError"]

\* Variant of SetStatus: the task is built again from its id, title and new status
SetStatusRebuilt(t, new_status) ==
    [id |-> t.id, title |-> t.title, description |-> "", status |-> new_status]

\* task.status = new_status: BaseModel does not validate an assignment
SetStatus(t, new_status) == [t EXCEPT !.status = new_status]

\* arguments.get(key, default)
Get(arg, default) == IF arg = Absent THEN default ELSE arg

\* ------------------------------------------------------------------ str(k), int(k)

DigitChars == <<"0", "1", "2", "3", "4", "5", "6", "7", "8", "9">>

RECURSIVE Str(_)
\* str(n) for n >= 0: its decimal digits
Str(n) == IF n < 10 THEN <<DigitChars[n + 1]>> ELSE Str(n \div 10) \o <<DigitChars[(n % 10) + 1]>>

DigitVal(c) == CHOOSE d \in 0 .. 9 : DigitChars[d + 1] = c

RECURSIVE ParseInt(_)
\* int(s) for a string of decimal digits
ParseInt(s) ==
    IF Len(s) = 1 THEN DigitVal(s[1])
    ELSE 10 * ParseInt(SubSeq(s, 1, Len(s) - 1)) + DigitVal(s[Len(s)])

\* ------------------------------------------------------------------ the backing file

NoFile == [kind |-> "absent"]

\* A file that open(..., 'w') truncated and that did not receive the whole JSON text:
\* empty, or a proper prefix of the object (its closing brace is written last).
PartialFile == [kind |-> "partial"]

\* The JSON object save_tasks dumps: {'tasks': {str(k): v.model_dump()}, 'next_id': next_id}
Snapshot(ts, n) ==
    [kind |-> "complete",
     tasks |-> [i \in 1 .. Len(ts) |-> [key |-> Str(ts[i].key), value |-> ts[i].task]],
     next_id |-> n]

\* Variant of save_tasks_raises: the exception of the write is swallowed
save_tasks_never_raises(io) == FALSE

\* Whether save_tasks raises
save_tasks_raises(io) == io \in {"open_fails", "write_fails"}

\* Variant of save_tasks: the write is deferred, the file is not touched in the call
save_tasks_deferred(ts, n, io, old) == old

\* DATA_FILE after save_tasks() on the store (ts, n), `old` being its content before
save_tasks(ts, n, io, old) ==
    CASE io = "ok" -> Snapshot(ts, n)
      [] io = "open_fails" -> old
      [] OTHER -> PartialFile

\* load_tasks() on a file: the store it leaves, or the exception it raises.
\* `cur` is the store before the call, kept when DATA_FILE does not exist.
load_tasks(f, cur) ==
    CASE f.kind = "absent" -> [ok |-> TRUE, tasks |-> cur.tasks, next_id |-> cur.next_id]
      [] f.kind = "partial" -> [ok |-> FALSE, exc |-> "JSONDecodeError"]
      [] OTHER ->
           LET made == [i \in 1 .. Len(f.tasks) |->
                          Task(f.tasks[i].value.id, f.tasks[i].value.title,
                               f.tasks[i].value.description, f.tasks[i].value.status)]
           IN  IF \E i \in 1 .. Len(made) : ~made[i].ok
               THEN [ok |-> FALSE, exc |-> "ValidationError"]
               ELSE [ok |-> TRUE,
                     tasks |-> [i \in 1 .. Len(made) |->
                                  [key |-> ParseInt(f.tasks[i].key), task |-> made[i].task]],
                     next_id |-> f.next_id]

\* The module's globals before load_tasks runs
FreshStore == [tasks |-> <<>>, next_id |-> 1]

\* ------------------------------------------------------------------ results

\* f"Task created successfully!  ID: {task.id}  Title: {task.title}  Status: {task.status}"
Created(t) == [kind |-> "created", id |-> t.id, title |-> t.title, status |-> t.status]

\* "No tasks found. Add your first task to get started!"
NoTasks == [kind |-> "no_tasks"]

\* f"No tasks found with status '{status_filter}'"
NoTasksWithStatus(status_filter) == [kind |-> "no_tasks_with_status", status |-> status_filter]

\* One line of the board: "- **#{task.id}** {task.title}", and the description when it
\* is not empty
Item(t) == IF t.description # "" THEN <<t.id, t.title, t.description>> ELSE <<t.id, t.title>>

\* One column of the board: its heading, then its tasks (or "_No tasks_")
Section(s, filtered_tasks) ==
    LET column == SelectSeq(filtered_tasks, LAMBDA t : t.status = s)
    IN  [status |-> s, items |-> [i \in 1 .. Len(column) |-> Item(column[i])]]

\* A column is rendered when the filter is "all" or names it
SectionIf(s, status_filter, filtered_tasks) ==
    IF status_filter = "all" \/ status_filter = s THEN <<Section(s, filtered_tasks)>> ELSE <<>>

\* "# Task Board" and its columns, in the fixed order Todo, In Progress, Done
Board(status_filter, filtered_tasks) ==
    [kind |-> "board",
     sections |-> SectionIf("todo", status_filter, filtered_tasks)
                  \o SectionIf("in_progress", status_filter, filtered_tasks)
                  \o SectionIf("done", status_filter, filtered_tasks)]

\* The display label of each status
status_names == [s \in TaskStatus |->
                   CASE s = "todo" -> "Todo" [] s = "in_progress" -> "In Progress" [] OTHER -> "Done"]

\* f"Task #{task_id} not found"
NotFound(task_id) == [kind |-> "not_found", id |-> task_id]

\* f"Unknown tool: {name}"
UnknownToolText(name) == [kind |-> "unknown_tool", name |-> name]

\* An exception that leaves call_tool
Raised(exc) == [kind |-> "error", exc |-> exc]

\* f"Task #{task_id} moved!  {task.title}  {status_names[old_status]} -> {status_names[new_status]}":
\* a status that status_names does not hold raises KeyError
Moved(task_id, title, old_status, new_status) ==
    IF old_status \in DOMAIN status_names /\ new_status \in DOMAIN status_names
    THEN [kind |-> "moved", id |-> task_id, title |-> title,
          old |-> status_names[old_status], new |-> status_names[new_status]]
    ELSE Raised("KeyError")

\* f"Task deleted!  ID: #{task.id}  Title: {task.title}"
Deleted(t) == [kind |-> "deleted", id |-> t.id, title |-> t.title]

\* The caller of a process that stopped gets no answer
NoResponse == [kind |-> "no_response"]

SuccessKinds == {"created", "moved", "deleted"}

\* ------------------------------------------------------------------ call_tool

\* Variant of IncrementNextId: the counter follows the number of tasks in the store
CountPlusOne(n) == Len(tasks) + 2

\* next_id += 1
IncrementNextId(n) == n + 1

\* Variant of Returns: the branch saves the store before it returns
ReturnsAfterSave(c, r) ==
    /\ call' = c
    /\ result' = r
    /\ file' = save_tasks(tasks, next_id, "ok", file)
    /\ UNCHANGED <<tasks, next_id, pc, issued, faults>>

\* A branch of call_tool that returns (or raises) without touching the store or the file
Returns(c, r) ==
    /\ call' = c
    /\ result' = r
    /\ UNCHANGED <<tasks, next_id, file, pc, issued, faults>>

\* The tail of a mutating branch: the store is already (ts, n); save_tasks() runs, and
\* then the text `after` is built and returned. `ids` are the ids the branch assigned.
Persist(c, ts, n, io, after, ids) ==
    /\ call' = c
    /\ file' = save_tasks(ts, n, io, file)
    /\ faults' = IF io = "ok" THEN faults ELSE faults + 1
    /\ IF io = "killed"
       THEN /\ pc' = "stopped"
            /\ tasks' = FreshStore.tasks
            /\ next_id' = FreshStore.next_id
            /\ issued' = <<>>
            /\ result' = NoResponse
       ELSE /\ pc' = pc
            /\ tasks' = ts
            /\ next_id' = n
            /\ issued' = issued \o ids
            /\ result' = IF save_tasks_raises(io) THEN Raised("OSError") ELSE after

\* name == "add_task"
AddTask(title, description, status, io) ==
    /\ pc = "running"
    /\ next_id <= MaxId
    /\ io # "ok" => faults < MaxFaults
    /\ LET c == [name |-> "add_task", title |-> title, description |-> description,
                 status |-> status]
           made == Task(next_id, title, Get(description, ""), Get(status, "todo"))
       IN  IF ~made.ok
           THEN Returns(c, Raised(made.exc))
           ELSE Persist(c, DictSet(tasks, next_id, made.task), IncrementNextId(next_id), io,
                        Created(made.task), <<next_id>>)

\* name == "list_tasks"
ListTasks(status) ==
    /\ pc = "running"
    /\ LET c == [name |-> "list_tasks", status |-> status]
           status_filter == Get(status, "all")
           filtered_tasks ==
               IF status_filter = "all" THEN Values(tasks)
               ELSE SelectSeq(Values(tasks), LAMBDA t : t.status = status_filter)
       IN  Returns(c, IF Len(tasks) = 0 THEN NoTasks
                      ELSE IF Len(filtered_tasks) = 0 THEN NoTasksWithStatus(status_filter)
                      ELSE Board(status_filter, filtered_tasks))

\* name == "move_task"
MoveTask(task_id, new_status, io) ==
    /\ pc = "running"
    /\ io # "ok" => faults < MaxFaults
    /\ LET c == [name |-> "move_task", task_id |-> task_id, new_status |-> new_status]
       IN  IF ~HasKey(tasks, task_id)
           THEN Returns(c, NotFound(task_id))
           ELSE LET task == Lookup(tasks, task_id)
                    old_status == task.status
                IN  Persist(c, DictSet(tasks, task_id, SetStatus(task, new_status)), next_id, io,
                            Moved(task_id, task.title, old_status, new_status), <<>>)

\* name == "delete_task"
DeleteTask(task_id, io) ==
    /\ pc = "running"
    /\ io # "ok" => faults < MaxFaults
    /\ LET c == [name |-> "delete_task", task_id |-> task_id]
       IN  IF ~HasKey(tasks, task_id)
           THEN Returns(c, NotFound(task_id))
           ELSE Persist(c, DictPop(tasks, task_id), next_id, io,
                        Deleted(Lookup(tasks, task_id)), <<>>)

\* any other name
UnknownTool(name) ==
    /\ pc = "running"
    /\ Returns([name |-> name], UnknownToolText(name))

\* ------------------------------------------------------------------ the process

\* The process exits between two requests: its memory is gone, the file stays
Stop ==
    /\ pc = "running"
    /\ pc' = "stopped"
    /\ tasks' = FreshStore.tasks
    /\ next_id' = FreshStore.next_id
    /\ issued' = <<>>
    /\ call' = [name |-> "<exit>"]
    /\ result' = NoResponse
    /\ UNCHANGED <<file, faults>>

\* main(): the module's globals, then load_tasks(); an exception of load_tasks ends main
Startup ==
    /\ pc = "stopped"
    /\ LET loaded == load_tasks(file, FreshStore)
       IN  /\ pc' = IF loaded.ok THEN "running" ELSE "fatal"
           /\ tasks' = IF loaded.ok THEN loaded.tasks ELSE FreshStore.tasks
           /\ next_id' = IF loaded.ok THEN loaded.next_id ELSE FreshStore.next_id
           /\ result' = IF loaded.ok THEN NoResponse ELSE Raised(loaded.exc)
    /\ call' = [name |-> "<main>"]
    /\ UNCHANGED <<file, issued, faults>>

\* ------------------------------------------------------------------ specifications

Init ==
    /\ tasks = FreshStore.tasks
    /\ next_id = FreshStore.next_id
    /\ file = NoFile
    /\ pc = "running"
    /\ call = [name |-> "<main>"]
    /\ result = NoResponse
    /\ issued = <<>>
    /\ faults = 0

Next ==
    \/ \E td \in TitleDescriptionArgs, status \in StatusArgs :
           AddTask(td[1], td[2], status, "ok")
    \/ \E status \in FilterArgs : ListTasks(status)
    \/ \E task_id \in IdArgs, new_status \in NewStatusArgs : MoveTask(task_id, new_status, "ok")
    \/ \E task_id \in IdArgs : DeleteTask(task_id, "ok")
    \/ \E name \in UnknownNames : UnknownTool(name)

Spec == Init /\ [][Next]_vars

\* Under faults the calls are drawn from the values the schemas declare.
FaultStatusArgs == {"todo", "done"}

FaultNext ==
    \/ \E io \in IoOutcomes : AddTask("a", Absent, Absent, io)
    \/ \E status \in {Absent} : ListTasks(status)
    \/ \E task_id \in 1 .. MaxId, new_status \in FaultStatusArgs, io \in IoOutcomes :
           MoveTask(task_id, new_status, io)
    \/ \E task_id \in 1 .. MaxId, io \in IoOutcomes : DeleteTask(task_id, io)
    \/ \E name \in UnknownNames : UnknownTool(name)
    \/ Stop
    \/ Startup

FaultSpec == Init /\ [][FaultNext]_vars

\* ------------------------------------------------------------------ claims

\* The ids of the tasks of `ts` whose status is s, in insertion order
IdsWithStatus(ts, s) ==
    LET sel == SelectSeq(ts, LAMBDA e : e.task.status = s)
    IN  [i \in 1 .. Len(sel) |-> sel[i].key]

RECURSIVE Flatten(_)
Flatten(ss) == IF Len(ss) = 0 THEN <<>> ELSE ss[1] \o Flatten(Tail(ss))

\* The ids a list_tasks result shows, section after section, top to bottom
ListedIds(r) ==
    IF r.kind = "board"
    THEN Flatten([k \in 1 .. Len(r.sections) |->
                    [i \in 1 .. Len(r.sections[k].items) |-> r.sections[k].items[i][1]]])
    ELSE <<>>

\* The file holds exactly the store (ts, n): the same keys in the same order, the same
\* fields of every task, the same counter
FileHolds(f, ts, n) ==
    /\ f.kind = "complete"
    /\ f.next_id = n
    /\ Len(f.tasks) = Len(ts)
    /\ \A i \in 1 .. Len(ts) :
           /\ ParseInt(f.tasks[i].key) = ts[i].key
           /\ f.tasks[i].value = ts[i].task

\* C1: the ids add_task assigns are strictly increasing in creation order, so they are
\* pairwise distinct and the id of a deleted task is never assigned again; the counter
\* stays above every id assigned, and the id reported to the caller is the one assigned.
C1_IdsStrictlyIncreasing ==
    /\ \A i, j \in 1 .. Len(issued) : i < j => issued[i] < issued[j]
    /\ \A i \in 1 .. Len(issued) : issued[i] < next_id
    /\ \A i \in 1 .. Len(tasks) : tasks[i].key \in Range(issued) /\ tasks[i].task.id = tasks[i].key
    /\ result.kind = "created" => result.id = issued[Len(issued)]

\* add, add, delete(2), add: the last add was given 3 while 2 is free
C1_Witness ==
    /\ result.kind = "created"
    /\ result.id = 3
    /\ HasKey(tasks, 1)
    /\ ~HasKey(tasks, 2)

\* C2: whenever add_task, move_task or delete_task has returned its confirmation, the
\* backing file holds exactly the in-memory store: the write happened inside the call.
C2_PersistedBeforeReturn ==
    (pc = "running" /\ result.kind \in SuccessKinds) => FileHolds(file, tasks, next_id)

\* a confirmed call after an earlier write had failed: the file caught up with the store
C2_Witness ==
    /\ pc = "running"
    /\ result.kind \in SuccessKinds
    /\ faults > 0
    /\ Len(tasks) > 0

\* C3: for every store reached through add_task, move_task and delete_task, save_tasks
\* followed by load_tasks into a fresh store (empty map, next_id = 1) succeeds and gives
\* back the store: the same ids in the same (creation) order, the same title,
\* description and status under each id, and the same next_id.
C3_RoundTrip ==
    LET written == save_tasks(tasks, next_id, "ok", file)
        loaded == load_tasks(written, FreshStore)
    IN  /\ loaded.ok
        /\ Len(loaded.tasks) = Len(tasks)
        /\ \A i \in 1 .. Len(tasks) :
               /\ loaded.tasks[i].key = tasks[i].key
               /\ loaded.tasks[i].task.id = tasks[i].task.id
               /\ loaded.tasks[i].task.title = tasks[i].task.title
               /\ loaded.tasks[i].task.description = tasks[i].task.description
               /\ loaded.tasks[i].task.status = tasks[i].task.status
        /\ loaded.next_id = next_id

\* The round trip of C3 for the stores whose tasks all have one of the three statuses:
\* it is lost only on a store that move_task gave a status outside TaskStatus (C5).
RoundTripOfValidStore ==
    (\A i \in 1 .. Len(tasks) : tasks[i].task.status \in TaskStatus)
        => LET loaded == load_tasks(save_tasks(tasks, next_id, "ok", file), FreshStore)
           IN  loaded.ok /\ loaded.tasks = tasks /\ loaded.next_id = next_id

\* C4: move_task or delete_task on an id the store does not hold (never issued, or
\* issued and deleted) returns the not-found text naming that id and changes neither the
\* task map, nor any task, nor next_id, nor the backing file.
C4_NotFoundChangesNothing ==
    [][(call'.name \in {"move_task", "delete_task"} /\ ~HasKey(tasks, call'.task_id))
         => /\ result' = [kind |-> "not_found", id |-> call'.task_id]
            /\ tasks' = tasks
            /\ next_id' = next_id
            /\ file' = file]_vars

\* delete_task on an id that was issued and has been deleted since
C4_Witness ==
    /\ call.name = "delete_task"
    /\ result.kind = "not_found"
    /\ result.id \in Range(issued)
    /\ ~HasKey(tasks, result.id)
    /\ Len(tasks) > 0

\* C5: every task of the store, and of the persisted snapshot, has one of the three
\* statuses, whatever status / new_status values the calls were given.
C5_StatusAlwaysValid ==
    /\ \A i \in 1 .. Len(tasks) : tasks[i].task.status \in TaskStatus
    /\ file.kind = "complete" =>
           \A i \in 1 .. Len(file.tasks) : file.tasks[i].value.status \in TaskStatus

\* C6: list_tasks with a filter among the three statuses shows exactly the tasks of that
\* status, each once, in creation order; with "all" or no filter it shows every task of
\* the store, each status group in creation order; it changes neither store nor file.
C6_FilterCompleteness ==
    [][call'.name = "list_tasks"
         => LET f == Get(call'.status, "all")
                shown == ListedIds(result')
            IN  /\ tasks' = tasks /\ next_id' = next_id /\ file' = file
                /\ f \in TaskStatus => shown = IdsWithStatus(tasks, f)
                /\ f = "all" =>
                       /\ Len(shown) = Len(tasks)
                       /\ Range(shown) = Keys(tasks)
                       /\ shown = IdsWithStatus(tasks, "todo")
                                  \o IdsWithStatus(tasks, "in_progress")
                                  \o IdsWithStatus(tasks, "done")]_vars

\* C7: whatever happens during save_tasks, the file is afterwards the complete previous
\* snapshot or the complete new one, so that load_tasks never meets an empty or
\* truncated file.
C7_PersistAtomic ==
    /\ [](load_tasks(file, FreshStore).ok)
    /\ [][\/ file' = file
          \/ /\ file'.kind = "complete"
             /\ pc' = "running" => FileHolds(file', tasks', next_id')]_vars

\* C8: add_task with an empty title fails: no task is inserted, next_id and the file are
\* left alone, and so no task of the store has an empty title.
C8_EmptyTitleRejected ==
    /\ [](\A i \in 1 .. Len(tasks) : tasks[i].task.title # "")
    /\ [][(call'.name = "add_task" /\ call'.title = "")
            => /\ result'.kind = "error"
               /\ tasks' = tasks
               /\ next_id' = next_id
               /\ file' = file]_vars

\* C9: move_task on an id of the store, to any of the three statuses and from whatever
\* status, changes the status of that task and nothing else: the keys and their order,
\* every id, title and description, the status of every other task and next_id stay;
\* when the new status is the current one the call is confirmed with old = new and the
\* store is unchanged.
C9_MoveChangesOnlyStatus ==
    [][(call'.name = "move_task" /\ HasKey(tasks, call'.task_id)
          /\ call'.new_status \in TaskStatus)
         => LET id == call'.task_id
                new == call'.new_status
            IN  /\ next_id' = next_id
                /\ Len(tasks') = Len(tasks)
                /\ \A i \in 1 .. Len(tasks) :
                       /\ tasks'[i].key = tasks[i].key
                       /\ tasks'[i].task.id = tasks[i].task.id
                       /\ tasks'[i].task.title = tasks[i].task.title
                       /\ tasks'[i].task.description = tasks[i].task.description
                       /\ tasks'[i].task.status =
                              IF tasks[i].key = id THEN new ELSE tasks[i].task.status
                /\ Lookup(tasks, id).status = new =>
                       /\ tasks' = tasks
                       /\ result' = [kind |-> "moved", id |-> id,
                                     title |-> Lookup(tasks, id).title,
                                     old |-> status_names[new], new |-> status_names[new]]]_vars

\* a confirmed move of a task with a description to the status it already had, in a
\* store of two tasks
C9_Witness ==
    /\ call.name = "move_task"
    /\ result.kind = "moved"
    /\ result.old = result.new
    /\ Len(tasks) >= 2
    /\ Lookup(tasks, result.id).description # ""

\* C10: when the write of save_tasks fails inside add_task, move_task or delete_task,
\* the store keeps the mutation (add_task has used up the id), the caller gets an error
\* and not the confirmation; and no call is confirmed unless the file holds the new
\* snapshot.
C10_WriteFailureKeepsMutation ==
    [][/\ (faults' > faults /\ pc' = "running")
            => /\ result'.kind = "error"
               /\ result'.kind \notin SuccessKinds
               /\ call'.name = "add_task" =>
                      /\ ~HasKey(tasks, next_id)
                      /\ HasKey(tasks', next_id)
                      /\ Lookup(tasks', next_id).title = call'.title
                      /\ next_id' = next_id + 1
                      /\ \A i \in 1 .. Len(tasks) : tasks'[i] = tasks[i]
               /\ call'.name = "move_task" =>
                      /\ Lookup(tasks', call'.task_id).status = call'.new_status
                      /\ next_id' = next_id
               /\ call'.name = "delete_task" =>
                      /\ HasKey(tasks, call'.task_id)
                      /\ ~HasKey(tasks', call'.task_id)
                      /\ next_id' = next_id
       /\ (pc' = "running" /\ result'.kind \in SuccessKinds)
            => FileHolds(file', tasks', next_id')]_vars

\* add_task whose write failed: the task is in the store under the id it used up, the
\* caller got OSError, and the file does not have the task
C10_Witness ==
    /\ call.name = "add_task"
    /\ result = Raised("OSError")
    /\ HasKey(tasks, next_id - 1)
    /\ ~FileHolds(file, tasks, next_id)

====
